---- MODULE Spec2Model ----
\* The TPN Locations API (src/api/index.py): one table "locations" behind a
\* handful of FastAPI route handlers.  The state is the table held by the
\* database the service is connected to; every handler is one action that
\* runs in its own session and either commits or rolls back, and the session
\* is closed before the next request is served (requests are served one at a
\* time here).
\*
\* Collaborators the handlers lean on are modelled by what they do:
\*   - the declarative constructor of DBLocation accepts only keyword names
\*     that are attributes of the mapped class;
\*   - setattr on a loaded instance persists a value only when the name is a
\*     mapped attribute, otherwise it is a plain instance attribute;
\*   - response_model=Location reads the returned object attribute by
\*     attribute (from_attributes), a missing attribute takes the field's
\*     default, a None in a field typed str fails response validation;
\*   - the integer primary key is assigned by the store: SQLite hands out
\*     max(rowid)+1, PostgreSQL the next value of the table's sequence.
\*   - column.ilike(pattern) is SQL LIKE without regard to case, with the
\*     wildcards % and _ live in whatever the pattern holds.
\*
\* Three specifications: Spec serves requests one at a time from an empty
\* store; ListSpec serves GET /locations over tables of records with richer
\* text; RaceSpec runs two POST /api/seed calls side by side, each split at
\* its accesses to the store.
EXTENDS Integers, Sequences, FiniteSets, TLC

\* ---------------------------------------------------------------- bounds
\* Longest fixture list ("locations" array of db.json) a seed call reads.
MaxFixture == 2
\* Requests served in one run.
MaxOps == 3

\* ------------------------------------------------------------ vocabulary
\* Python None / JSON null / SQL NULL.
Null == "<null>"

\* Settings.SEED_SECRET, the fallback value.
SEED_SECRET == "default_secret"

Secrets == {SEED_SECRET, "wrong"}

\* Settings.DATABASE_URL selects the dialect: the fallback is SQLite, the
\* deployment comment names PostgreSQL.
Dialects == {"sqlite", "postgresql"}

\* Attributes of the mapped class DBLocation other than the primary key.
Columns == {"name", "loca", "img", "desc", "facilities", "layout"}

\* Every attribute of the mapped class DBLocation.
MappedAttrs == {"id"} \cup Columns

\* Fields of the pydantic schemas LocationBase / LocationUpdate / Location.
SchemaFields == {"name", "loca", "img", "desc", "facilities", "layout_info"}

\* Fields of LocationBase typed str without a default.
RequiredFields == {"name", "loca", "img", "desc"}

\* The empty keyword dictionary.
EmptyDict == [k \in {} |-> Null]

\* The largest id of a set of ids, 0 for none.
Max(S) == IF S = {} THEN 0 ELSE CHOOSE m \in S : \A x \in S : x <= m

\* Python truthiness of a JSON scalar as `not value` tests it.
Falsy(v) == v = Null \/ v = ""

\* ------------------------------------------------------------------ text
\* The characters of the string values that occur here.
Spelling(v) ==
    CASE v = "" -> <<>>
      [] v = "A" -> <<"A">>
      [] v = "B" -> <<"B">>
      [] v = "C" -> <<"C">>
      [] v = "Ab" -> <<"A", "b">>
      [] v = "a" -> <<"a">>
      [] v = "b" -> <<"b">>
      [] v = "_" -> <<"_">>
      [] v = "7" -> <<"7">>
      [] v = "asc" -> <<"a", "s", "c">>
      [] v = "desc" -> <<"d", "e", "s", "c">>
      [] v = "DESC" -> <<"D", "E", "S", "C">>

\* The characters in code-point order.
CodePoints ==
    <<"%", "7", "A", "B", "C", "D", "E", "S", "_", "a", "b", "c", "d", "e", "s">>

Code(c) == CHOOSE i \in 1..Len(CodePoints) : CodePoints[i] = c

\* str.lower() and SQL lower(): a capital letter becomes its small letter,
\* every other character stays.
LowerChar(c) ==
    CASE c = "A" -> "a" [] c = "B" -> "b" [] c = "C" -> "c"
      [] c = "D" -> "d" [] c = "E" -> "e" [] c = "S" -> "s"
      [] OTHER -> c

Lower(t) == [i \in 1..Len(t) |-> LowerChar(t[i])]

\* SQL LIKE over characters: % stands for any run of characters, _ for any
\* one character, every other character for itself.
RECURSIVE Like(_, _)
Like(t, pattern) ==
    IF pattern = <<>> THEN t = <<>>
    ELSE IF Head(pattern) = "%"
         THEN Like(t, Tail(pattern)) \/ (t # <<>> /\ Like(Tail(t), pattern))
         ELSE /\ t # <<>>
              /\ Head(pattern) = "_" \/ Head(pattern) = Head(t)
              /\ Like(Tail(t), Tail(pattern))

\* column.ilike(f"%{term}%"): the term goes into the pattern as it is, LIKE
\* is evaluated without regard to case, and a NULL column matches nothing.
ilike(column, term) ==
    /\ column # Null
    /\ Like(Lower(Spelling(column)),
            <<"%">> \o Lower(Spelling(term)) \o <<"%">>)

\* Strings compared character by character in code-point order.
RECURSIVE TextLess(_, _)
TextLess(a, b) ==
    IF b = <<>> THEN FALSE
    ELSE IF a = <<>> THEN TRUE
    ELSE IF Head(a) = Head(b) THEN TextLess(Tail(a), Tail(b))
    ELSE Code(Head(a)) < Code(Head(b))

\* ----------------------------------------------------------------- store
\* The table with no rows.
EmptyRows == [i \in {} |-> EmptyDict]

\* The ORM instance loaded from row `row` with primary key `id`: one attribute
\* per mapped column, the layout_info column under the attribute "layout".
Instance(id, row) == ("id" :> id) @@ row

\* The declarative constructor DBLocation(**kwargs): a keyword that is no
\* attribute of the class raises TypeError; attributes not given stay None.
DBLocation(kwargs) ==
    IF \E k \in DOMAIN kwargs : k \notin MappedAttrs
    THEN [ok |-> FALSE, row |-> EmptyDict]
    ELSE [ok |-> TRUE,
          row |-> [c \in Columns |-> IF c \in DOMAIN kwargs THEN kwargs[c] ELSE Null]]

\* The ids the store gives `n` rows inserted in one commit.  SQLite (INTEGER
\* PRIMARY KEY without AUTOINCREMENT) continues after the largest id present;
\* PostgreSQL continues the table's sequence, whatever was deleted.
NextIdBase(d, s) == IF d = "sqlite" THEN Max(DOMAIN s.rows) ELSE s.seq

\* db.add(...) for every element of `objs`, then db.commit().
Insert(d, s, objs) ==
    LET base == NextIdBase(d, s)
        n == Len(objs)
        added == [i \in (base + 1)..(base + n) |-> objs[i - base]]
    IN [s EXCEPT !.rows = added @@ s.rows,
                 !.seq = IF d = "sqlite" THEN s.seq ELSE s.seq + n]

\* ------------------------------------------------------------- responses
\* An error response: the session is rolled back or was never written to.
Fail(status, s) == [status |-> status, db |-> s, body |-> EmptyDict]

\* response_model=Location over the object `obj` a handler returns: each field
\* is read with getattr, an absent attribute takes the default None, and a
\* None in one of the str fields fails response validation (status 500, after
\* the handler's commit).
Respond(status, s, obj) ==
    LET field(f) == IF f \in DOMAIN obj THEN obj[f] ELSE Null
    IN IF \E f \in RequiredFields : field(f) = Null
       THEN [status |-> 500, db |-> s, body |-> EmptyDict]
       ELSE [status |-> status, db |-> s,
             body |-> [f \in {"id"} \cup SchemaFields |-> field(f)]]

\* -------------------------------------------------------------- handlers
\* The key of ORDER BY <sort_by> ASC: row i comes strictly before row j.
\* NULL names sort first under SQLite and last under PostgreSQL.
ColumnBefore(d, s, sort_by, i, j) ==
    IF sort_by = "id" THEN i < j
    ELSE LET a == s.rows[i].name
             b == s.rows[j].name
         IN IF a = Null \/ b = Null
            THEN IF d = "sqlite" THEN a = Null /\ b # Null
                 ELSE a # Null /\ b = Null
            ELSE TextLess(Spelling(a), Spelling(b))

\* The order the query asks for: none unless sort_by is id or name, and then
\* descending exactly when order.lower() is "desc".
Before(d, s, q, i, j) ==
    IF q.sort_by \notin {"id", "name"} THEN FALSE
    ELSE IF Lower(Spelling(q.order)) = Spelling("desc")
         THEN ColumnBefore(d, s, q.sort_by, j, i)
         ELSE ColumnBefore(d, s, q.sort_by, i, j)

\* The WHERE clause: a filter is added only for a parameter that is truthy.
Selected(s, q) ==
    {i \in DOMAIN s.rows :
        /\ Falsy(q.loca) \/ ilike(s.rows[i].loca, q.loca)
        /\ Falsy(q.search) \/ ilike(s.rows[i].name, q.search)
                           \/ ilike(s.rows[i].desc, q.search)}

\* What query.limit(limit).all() may return: the selected rows' ids, cut to
\* limit, in an order that agrees with the ORDER BY; where the ORDER BY says
\* nothing (no ORDER BY, or equal keys) the store is free.
Fetched(d, s, q) ==
    LET sel == Selected(s, q)
        n == IF Cardinality(sel) < q.limit THEN Cardinality(sel) ELSE q.limit
    IN {r \in [1..n -> sel] :
          /\ \A a, b \in 1..n : a < b => r[a] # r[b] /\ ~Before(d, s, q, r[b], r[a])
          /\ \A m \in sel : (\A a \in 1..n : r[a] # m) =>
                \A a \in 1..n : ~Before(d, s, q, m, r[a])}

\* response_model=List[Location] over the rows fetched: one row that fails
\* validation fails the whole response.
RespondList(s, r) ==
    LET item(i) == Respond(200, s, Instance(r[i], s.rows[r[i]]))
    IN IF \E i \in 1..Len(r) : item(i).status # 200
       THEN [status |-> 500, db |-> s, body |-> EmptyDict]
       ELSE [status |-> 200, db |-> s, body |-> [i \in 1..Len(r) |-> item(i).body]]

\* GET /locations: every response the call may give.
read_locations(d, s, q) ==
    IF q.limit < 1 \/ q.limit > 100 THEN {Fail(422, s)}
    ELSE IF ~s.exists THEN {Fail(500, s)}
    ELSE {RespondList(s, r) : r \in Fetched(d, s, q)}

\* read_location with the guard written `location_id < 0`.
read_location_ZeroPasses(s, location_id) ==
    IF location_id < 0 THEN Fail(400, s)
    ELSE IF ~s.exists THEN Fail(500, s)
    ELSE IF location_id \notin DOMAIN s.rows THEN Fail(404, s)
    ELSE Respond(200, s, Instance(location_id, s.rows[location_id]))

\* GET /locations/{location_id}
read_location(s, location_id) ==
    IF location_id <= 0 THEN Fail(400, s)
    ELSE IF ~s.exists THEN Fail(500, s)
    ELSE IF location_id \notin DOMAIN s.rows THEN Fail(404, s)
    ELSE Respond(200, s, Instance(location_id, s.rows[location_id]))

\* delete_location without its db.commit(): 204, and the row stays.
delete_location_KeepsRow(s, location_id) ==
    IF location_id <= 0 THEN Fail(400, s)
    ELSE IF ~s.exists THEN Fail(500, s)
    ELSE IF location_id \notin DOMAIN s.rows THEN Fail(404, s)
    ELSE [status |-> 204, db |-> s, body |-> EmptyDict]

\* DELETE /locations/{location_id}
delete_location(s, location_id) ==
    IF location_id <= 0 THEN Fail(400, s)
    ELSE IF ~s.exists THEN Fail(500, s)
    ELSE IF location_id \notin DOMAIN s.rows THEN Fail(404, s)
    ELSE [status |-> 204,
          db |-> [s EXCEPT !.rows = [i \in DOMAIN s.rows \ {location_id} |-> s.rows[i]]],
          body |-> EmptyDict]

\* The setattr loop, commit and refresh of update_location, and its answer.
\* `update_data` is location_update.model_dump(exclude_unset=True): the
\* fields the body names.
ApplyUpdate(s, location_id, update_data) ==
    LET old == s.rows[location_id]
        \* setattr(db_location, key, value): a mapped attribute is written to
        \* the row at commit ...
        new == [c \in Columns |->
                   IF c \in DOMAIN update_data THEN update_data[c] ELSE old[c]]
        \* ... any other key becomes a plain attribute of the instance, which
        \* db.refresh leaves in place.
        plain == [k \in DOMAIN update_data \ MappedAttrs |-> update_data[k]]
    IN Respond(200, [s EXCEPT !.rows[location_id] = new],
               plain @@ Instance(location_id, new))

\* update_location with the empty-body test moved ahead of the lookup.
update_location_EmptyFirst(s, location_id, update_data) ==
    IF DOMAIN update_data = {} THEN Fail(400, s)
    ELSE IF location_id <= 0 THEN Fail(400, s)
    ELSE IF ~s.exists THEN Fail(500, s)
    ELSE IF location_id \notin DOMAIN s.rows THEN Fail(404, s)
    ELSE ApplyUpdate(s, location_id, update_data)

\* PATCH /locations/{location_id}
update_location(s, location_id, update_data) ==
    IF location_id <= 0 THEN Fail(400, s)
    ELSE IF ~s.exists THEN Fail(500, s)
    ELSE IF location_id \notin DOMAIN s.rows THEN Fail(404, s)
    ELSE IF DOMAIN update_data = {} THEN Fail(400, s)
    ELSE ApplyUpdate(s, location_id, update_data)

\* LocationCreate.model_dump(): every schema field, None where the body
\* omitted an optional one.
model_dump(location) ==
    [f \in SchemaFields |-> IF f \in DOMAIN location THEN location[f] ELSE Null]

\* Request validation against LocationCreate: the four str fields present and
\* not null.
ValidCreate(location) ==
    \A f \in RequiredFields : f \in DOMAIN location /\ location[f] # Null

\* POST /locations
create_location(d, s, location) ==
    IF ~ValidCreate(location) THEN Fail(422, s)
    ELSE LET new_location == DBLocation(model_dump(location))
         IN IF ~new_location.ok THEN Fail(500, s)
            ELSE IF ~s.exists THEN Fail(500, s)
            ELSE LET s2 == Insert(d, s, <<new_location.row>>)
                     id == CHOOSE i \in DOMAIN s2.rows : i \notin DOMAIN s.rows
                 IN Respond(201, s2, Instance(id, s2.rows[id]))

\* field_mapping of seed_database, in the order the dictionary is walked.
field_mapping ==
    << <<"id", "id">>, <<"name", "name">>, <<"locations", "loca">>,
       <<"loca", "loca">>, <<"img", "img">>, <<"desc", "desc">>,
       <<"facilities", "facilities">>, <<"Layout", "layout">>,
       <<"layout_info", "layout">> >>

\* processed_data of one fixture object: its keys renamed, "id" left out.
RECURSIVE MapFields(_, _, _)
MapFields(loc_data, i, processed_data) ==
    IF i > Len(field_mapping) THEN processed_data
    ELSE LET json_field == field_mapping[i][1]
             db_field == field_mapping[i][2]
         IN IF json_field \in DOMAIN loc_data /\ json_field # "id"
            THEN MapFields(loc_data, i + 1,
                           (db_field :> loc_data[json_field]) @@ processed_data)
            ELSE MapFields(loc_data, i + 1, processed_data)

\* The required-field test without its `not processed_data[field]` half.
HasRequired_PresenceOnly(processed_data) ==
    \A f \in RequiredFields : f \in DOMAIN processed_data

\* The required-field test of the seeding loop.
HasRequired(processed_data) ==
    \A f \in RequiredFields : f \in DOMAIN processed_data /\ ~Falsy(processed_data[f])

\* The seeding loop: the rows added to the session, in fixture order; an
\* object that raises is logged and skipped.
RECURSIVE Staged(_, _)
Staged(locations_data, i) ==
    IF i > Len(locations_data) THEN <<>>
    ELSE LET processed_data == MapFields(locations_data[i], 1, EmptyDict)
             new_location == DBLocation(processed_data)
         IN (IF HasRequired(processed_data) /\ new_location.ok
             THEN <<new_location.row>> ELSE <<>>) \o Staged(locations_data, i + 1)

\* What blocks lines 325-342 do once the count is known.  The HTTPException
\* raised for a table that holds rows is raised inside the try whose except
\* clause catches Exception, so it never leaves the handler: the tables are
\* dropped and created again.  Under SQLite the drop goes through; under
\* PostgreSQL it waits for the lock the session's own open transaction holds
\* on the table, so it ends in an error (or the request never answers).
DropSucceeds(d) == d = "sqlite"

\* seed_database from its emptiness check on, with the tables created
\* (store s1); `file` is db.json as found on disk.
SeedTable(d, s1, file) ==
    LET existing_count == Cardinality(DOMAIN s1.rows)
    IN IF existing_count > 0 /\ ~DropSucceeds(d) THEN Fail(500, s1)
       ELSE LET s2 == IF existing_count > 0
                      THEN [s1 EXCEPT !.rows = EmptyRows, !.seq = 0]
                      ELSE s1
                locations_data == IF file.found THEN file.locations ELSE <<>>
                staged == Staged(locations_data, 1)
            IN IF Len(locations_data) = 0 THEN Fail(500, s2)
               ELSE IF Len(staged) = 0 THEN Fail(500, s2)
               ELSE [status |-> 200, db |-> Insert(d, s2, staged),
                     body |-> [inserted_count |-> Len(staged),
                               total_data |-> Len(locations_data)]]

\* seed_database with create_all run ahead of the secret check.
seed_database_CreateFirst(d, s, secret, file) ==
    IF secret # SEED_SECRET THEN Fail(403, [s EXCEPT !.exists = TRUE])
    ELSE SeedTable(d, [s EXCEPT !.exists = TRUE], file)

\* POST /api/seed: the secret check, create_all, then the rest.
seed_database(d, s, secret, file) ==
    IF secret # SEED_SECRET THEN Fail(403, s)
    ELSE SeedTable(d, [s EXCEPT !.exists = TRUE], file)

\* seed_database in the three stretches that the store sees one at a time.
\* First the secret check, create_all and the count of the emptiness check:
\* `status` is 403 when the call ends here, 0 when it goes on.
seed_check(s, secret) ==
    IF secret # SEED_SECRET
    THEN [status |-> 403, db |-> s, existing_count |-> 0]
    ELSE [status |-> 0, db |-> [s EXCEPT !.exists = TRUE],
          existing_count |-> Cardinality(DOMAIN s.rows)]

\* The except clause that a count above zero ends in: drop_all, create_all.
seed_recreate(d, s) ==
    IF DropSucceeds(d)
    THEN [status |-> 0, db |-> [s EXCEPT !.rows = EmptyRows, !.seq = 0]]
    ELSE [status |-> 500, db |-> s]

\* seed_commit writing the staged records over the table instead of adding
\* them to it.
seed_commit_Overwrite(d, s, file) ==
    LET locations_data == IF file.found THEN file.locations ELSE <<>>
        staged == Staged(locations_data, 1)
    IN IF Len(locations_data) = 0 THEN Fail(500, s)
       ELSE IF Len(staged) = 0 THEN Fail(500, s)
       ELSE [status |-> 200,
             db |-> Insert(d, [s EXCEPT !.rows = EmptyRows, !.seq = 0], staged),
             body |-> [inserted_count |-> Len(staged),
                       total_data |-> Len(locations_data)]]

\* The rest: db.json read, the seeding loop, and the commit, which adds the
\* staged records to the table as it is at that moment.
seed_commit(d, s, file) ==
    LET locations_data == IF file.found THEN file.locations ELSE <<>>
        staged == Staged(locations_data, 1)
    IN IF Len(locations_data) = 0 THEN Fail(500, s)
       ELSE IF Len(staged) = 0 THEN Fail(500, s)
       ELSE [status |-> 200, db |-> Insert(d, s, staged),
             body |-> [inserted_count |-> Len(staged),
                       total_data |-> Len(locations_data)]]

\* DELETE /api/reset
reset_database(s, secret) ==
    IF secret # SEED_SECRET THEN Fail(403, s)
    ELSE IF ~s.exists THEN Fail(500, s)
    ELSE [status |-> 200, db |-> [s EXCEPT !.rows = EmptyRows],
          body |-> [deleted_count |-> Cardinality(DOMAIN s.rows)]]

\* ---------------------------------------------------------------- inputs
\* Fixture objects of db.json: the plain spelling; the alternative spelling
\* (locations, Layout) with an id and the optional fields; one without a
\* name; one whose desc is the empty string.
ObjPlain == [name |-> "A", loca |-> "A", img |-> "A", desc |-> "A"]

ObjAlt ==
    [id |-> "7", name |-> "B", locations |-> "B", img |-> "B", desc |-> "B",
     facilities |-> "B", Layout |-> "B"]

ObjNoName == [loca |-> "A", img |-> "A", desc |-> "A"]

ObjEmptyDesc == [name |-> "A", loca |-> "A", img |-> "A", desc |-> ""]

FixtureObjects == {ObjPlain, ObjAlt, ObjNoName, ObjEmptyDesc}

FixtureLists == UNION {[1..n -> FixtureObjects] : n \in 0..MaxFixture}

\* db.json as a seed call finds it: absent from every path tried, or holding
\* a "locations" list.
NoFile == [found |-> FALSE, locations |-> <<>>]

Files ==
    {NoFile}
        \cup {[found |-> TRUE, locations |-> l] : l \in FixtureLists}

\* Ids a request names: one that is not positive, the ids a first seed hands
\* out, and one beyond them.
RequestIds == 0..(MaxFixture + 1)

\* Values a PATCH body gives a field.
PatchValues == {"C", Null}

\* PATCH bodies, each the fields set in the request with their values: the
\* empty body, every body naming one field, and the body naming all six.
PatchBodies ==
    {EmptyDict}
        \cup {(f :> v) : f \in SchemaFields, v \in PatchValues}
        \cup {[f \in SchemaFields |-> "C"]}

\* POST bodies: the required fields alone, with either or both optional
\* fields, and one that lacks a required field.
CreateBodies ==
    {[f \in S |-> "C"] :
       S \in {RequiredFields, RequiredFields \cup {"facilities"},
              RequiredFields \cup {"layout_info"}, SchemaFields,
              RequiredFields \ {"name"}}}

\* Query strings of GET /locations.  A parameter left out takes its default:
\* search and loca None, sort_by "id", order "asc", limit 100.
DefaultQuery ==
    [search |-> Null, loca |-> Null, sort_by |-> "id", order |-> "asc",
     limit |-> 100]

\* The query strings sent between the writes: the bare one and one cut to a
\* single record.
PlainQueries == {DefaultQuery, [DefaultQuery EXCEPT !.limit = 1]}

\* Query strings with filters, orders and limits, and one whose limit is out
\* of range.
ListQueries ==
    {[search |-> se, loca |-> lo, sort_by |-> sb, order |-> od, limit |-> li] :
        se \in {Null, "b", "_"}, lo \in {Null, "a"},
        sb \in {"id", "name", "other"}, od \in {"asc", "DESC"},
        li \in {1, 2, 100}}
      \cup {[DefaultQuery EXCEPT !.limit = 0]}

\* Records a table may hold when a listing is asked for: seeded records with
\* text of either case, and one whose name a PATCH has set to null.
ListRows ==
    {[name |-> "Ab", loca |-> "A", img |-> "A", desc |-> "C",
      facilities |-> Null, layout |-> Null],
     [name |-> "C", loca |-> "Ab", img |-> "A", desc |-> "B",
      facilities |-> "A", layout |-> "B"],
     [name |-> "A", loca |-> "B", img |-> "A", desc |-> "C",
      facilities |-> Null, layout |-> Null],
     [name |-> Null, loca |-> "A", img |-> "A", desc |-> "B",
      facilities |-> Null, layout |-> Null]}

\* Tables of such records under the ids 1..n.
ListTables == UNION {[1..n -> ListRows] : n \in 0..(MaxFixture + 1)}

\* ----------------------------------------------------------------- state
VARIABLES
    dialect,   \* the database behind DATABASE_URL
    db,        \* the store: whether table locations exists, its rows, its id sequence
    req,       \* the last request served
    resp,      \* the response to it: status and body
    pre,       \* the store as the last request found it
    assigned,  \* every id the store has given a row so far
    deleted,   \* every id a DELETE /locations/{id} has answered 204 for
    ops,       \* requests served
    calls      \* seed calls in flight side by side: how far each has come

vars == <<dialect, db, req, resp, pre, assigned, deleted, ops, calls>>

\* No request is being served: what req, resp and pre held went with the
\* session of the last one.
NoRequest == [op |-> "none"]

NoResponse == [status |-> 0, body |-> EmptyDict]

Idle == req = NoRequest

\* No seed calls in flight side by side.
NoCalls == <<>>

\* The table exists when the startup hook could create it (its raw-string
\* probe query raises under SQLAlchemy 2, and the hook then skips create_all).
Init ==
    /\ dialect \in Dialects
    /\ db \in {[exists |-> e, rows |-> EmptyRows, seq |-> 0] : e \in BOOLEAN}
    /\ req = NoRequest
    /\ resp = NoResponse
    /\ pre = db
    /\ assigned = {}
    /\ deleted = {}
    /\ ops = 0
    /\ calls = NoCalls

\* One request served: `out` is what the handler made of store db.  The ids
\* of rows the request added are remembered in assigned, the id a DELETE
\* answered 204 for in deleted.
Serve(request, out) ==
    /\ req' = request
    /\ resp' = [status |-> out.status, body |-> out.body]
    /\ pre' = db
    /\ db' = out.db
    /\ assigned' = assigned \cup (DOMAIN out.db.rows \ DOMAIN db.rows)
                             \cup (IF request.op = "seed" /\ out.status = 200
                                   THEN DOMAIN out.db.rows ELSE {})
    /\ deleted' = deleted \cup (IF request.op = "delete" /\ out.status = 204
                                THEN {request.id} ELSE {})
    /\ ops' = ops + 1
    /\ UNCHANGED <<dialect, calls>>

\* db.json is read only once the secret has passed: a call with another
\* secret is served the same whatever the file holds.
SeedDatabase ==
    /\ Idle
    /\ ops < MaxOps
    /\ \E secret \in Secrets :
            \E file \in IF secret = SEED_SECRET THEN Files ELSE {NoFile} :
                \E out \in {seed_database(dialect, db, secret, file)} :
                    Serve([op |-> "seed", secret |-> secret, file |-> file], out)

ResetDatabase ==
    /\ Idle
    /\ ops < MaxOps
    /\ \E secret \in Secrets :
            \E out \in {reset_database(db, secret)} :
                Serve([op |-> "reset", secret |-> secret], out)

ReadLocation ==
    /\ Idle
    /\ ops < MaxOps
    /\ \E id \in RequestIds :
            \E out \in {read_location(db, id)} :
                Serve([op |-> "read", id |-> id], out)

\* GET /locations between the writes.
ReadLocations ==
    /\ Idle
    /\ ops < MaxOps
    /\ \E q \in PlainQueries :
            \E out \in read_locations(dialect, db, q) :
                Serve([op |-> "list", query |-> q], out)

CreateLocation ==
    /\ Idle
    /\ ops < MaxOps
    /\ \E location \in CreateBodies :
            \E out \in {create_location(dialect, db, location)} :
                Serve([op |-> "create", body |-> location], out)

UpdateLocation ==
    /\ Idle
    /\ ops < MaxOps
    /\ \E id \in RequestIds, body \in PatchBodies :
            \E out \in {update_location(db, id, body)} :
                Serve([op |-> "update", id |-> id, body |-> body], out)

DeleteLocation ==
    /\ Idle
    /\ ops < MaxOps
    /\ \E id \in RequestIds :
            \E out \in {delete_location(db, id)} :
                Serve([op |-> "delete", id |-> id], out)

\* The response is out and get_db closes the session: the request, its
\* response and the objects it loaded are gone; the store stays.
CloseSession ==
    /\ ~Idle
    /\ req' = NoRequest
    /\ resp' = NoResponse
    /\ pre' = db
    /\ UNCHANGED <<dialect, db, assigned, deleted, ops, calls>>

Next ==
    \/ SeedDatabase
    \/ ResetDatabase
    \/ ReadLocation
    \/ ReadLocations
    \/ CreateLocation
    \/ UpdateLocation
    \/ DeleteLocation
    \/ CloseSession

Spec == Init /\ [][Next]_vars

\* ------------------------------------------------------- listing, alone
\* The listing looked at on its own: the service holds some table of records
\* and serves GET /locations calls with every query string of ListQueries.
ListInit ==
    /\ dialect \in Dialects
    /\ db \in {[exists |-> TRUE, rows |-> t, seq |-> Len(t)] : t \in ListTables}
    /\ req = NoRequest
    /\ resp = NoResponse
    /\ pre = db
    /\ assigned = DOMAIN db.rows
    /\ deleted = {}
    /\ ops = 0
    /\ calls = NoCalls

SearchLocations ==
    /\ Idle
    /\ ops < MaxOps
    /\ \E q \in ListQueries :
            \E out \in read_locations(dialect, db, q) :
                Serve([op |-> "list", query |-> q], out)

ListNext ==
    \/ SearchLocations
    \/ CloseSession

ListSpec == ListInit /\ [][ListNext]_vars

\* ------------------------------------------------- two seed calls at once
\* Two POST /api/seed calls served side by side by two workers, each with a
\* session of its own, against a table that starts empty.  db.json is the
\* same file for both.  A call is at "start", then past its emptiness check
\* at "recreate" (the count was above zero) or "load" (it was zero), then
\* "done" with its response.
SeedCalls == {1, 2}

RaceInit ==
    /\ dialect \in Dialects
    /\ db \in {[exists |-> e, rows |-> EmptyRows, seq |-> 0] : e \in BOOLEAN}
    /\ req = NoRequest
    /\ resp = NoResponse
    /\ pre = db
    /\ assigned = {}
    /\ deleted = {}
    /\ ops = 0
    /\ \E file \in Files :
          calls = [c \in SeedCalls |->
                     [pc |-> "start", file |-> file, existing_count |-> 0,
                      status |-> 0, body |-> EmptyDict]]

\* Call c checks the secret, creates the tables and counts the records.
SeedCheck(c) ==
    /\ calls[c].pc = "start"
    /\ \E secret \in Secrets :
          \E out \in {seed_check(db, secret)} :
             /\ db' = out.db
             /\ calls' = [calls EXCEPT
                   ![c].pc = IF out.status = 403 THEN "done"
                             ELSE IF out.existing_count > 0 THEN "recreate"
                             ELSE "load",
                   ![c].existing_count = out.existing_count,
                   ![c].status = out.status]
    /\ UNCHANGED <<dialect, req, resp, pre, assigned, deleted, ops>>

\* Call c, having counted records, drops and recreates the tables.
SeedRecreate(c) ==
    /\ calls[c].pc = "recreate"
    /\ \E out \in {seed_recreate(dialect, db)} :
          /\ db' = out.db
          /\ calls' = [calls EXCEPT
                ![c].pc = IF out.status = 500 THEN "done" ELSE "load",
                ![c].status = out.status]
    /\ UNCHANGED <<dialect, req, resp, pre, assigned, deleted, ops>>

\* Call c reads db.json, stages its records and commits.
SeedCommit(c) ==
    /\ calls[c].pc = "load"
    /\ \E out \in {seed_commit(dialect, db, calls[c].file)} :
          /\ db' = out.db
          /\ calls' = [calls EXCEPT ![c].pc = "done",
                                    ![c].status = out.status,
                                    ![c].body = out.body]
    /\ UNCHANGED <<dialect, req, resp, pre, assigned, deleted, ops>>

SeedCheckStep == \E c \in SeedCalls : SeedCheck(c)

SeedRecreateStep == \E c \in SeedCalls : SeedRecreate(c)

SeedCommitStep == \E c \in SeedCalls : SeedCommit(c)

RaceNext ==
    \/ SeedCheckStep
    \/ SeedRecreateStep
    \/ SeedCommitStep

RaceSpec == RaceInit /\ [][RaceNext]_vars

\* ---------------------------------------------------------------- claims
\* The value a persisted row holds for schema field f: the schema's
\* layout_info is the column the class maps under the attribute "layout".
Stored(row, f) == row[IF f = "layout_info" THEN "layout" ELSE f]

\* The last request was a seed call with the right secret that found rows.
SeedOnRows ==
    /\ req.op = "seed"
    /\ req.secret = SEED_SECRET
    /\ DOMAIN pre.rows # {}

\* C1: a seed call with the correct secret on a table that holds at least one
\* record answers 400 and leaves the persisted records exactly as they were.
C1_SeedOnRowsConflicts ==
    SeedOnRows => resp.status = 400 /\ db.rows = pre.rows

\* The last request was a PATCH that answered 200.
PatchSucceeded == req.op = "update" /\ resp.status = 200

\* C2: after a successful PATCH naming the fields S, the persisted record is
\* the record before the call with exactly the fields of S overwritten by the
\* supplied values (layout_info included), and no other record changes.
C2_PatchOverwritesExactlySupplied ==
    PatchSucceeded =>
        /\ DOMAIN db.rows = DOMAIN pre.rows
        /\ \A f \in SchemaFields :
              Stored(db.rows[req.id], f) =
                  IF f \in DOMAIN req.body THEN req.body[f]
                  ELSE Stored(pre.rows[req.id], f)
        /\ \A j \in DOMAIN pre.rows \ {req.id} : db.rows[j] = pre.rows[j]

\* C3: every persisted record has non-null name, loca, img and desc.
C3_RequiredNeverNull ==
    \A i \in DOMAIN db.rows : \A f \in RequiredFields : db.rows[i][f] # Null

\* The last request was a POST /locations whose body passes validation,
\* served with the table in place.
ValidCreateServed ==
    /\ req.op = "create"
    /\ ValidCreate(req.body)
    /\ pre.exists

\* C4: a POST /locations with the four required fields answers 201, adds
\* exactly one record whose fields equal the body, and returns that record
\* with its generated id.
C4_CreateSucceeds ==
    ValidCreateServed =>
        /\ resp.status = 201
        /\ \E id \in DOMAIN db.rows \ DOMAIN pre.rows :
              /\ DOMAIN db.rows = DOMAIN pre.rows \cup {id}
              /\ \A j \in DOMAIN pre.rows : db.rows[j] = pre.rows[j]
              /\ \A f \in SchemaFields :
                    Stored(db.rows[id], f) = model_dump(req.body)[f]
              /\ resp.body = ("id" :> id) @@ model_dump(req.body)

\* The last request was a PATCH served with the table in place.
PatchServed == req.op = "update" /\ pre.exists

\* C5 as stated: a PATCH with an empty field set answers 400 and changes no
\* record whatever the id; with an unmatched id and a non-empty field set it
\* answers 404.
C5_EmptyPatchAlways400 ==
    PatchServed =>
        /\ DOMAIN req.body = {} => resp.status = 400 /\ db = pre
        /\ (DOMAIN req.body # {} /\ req.id \notin DOMAIN pre.rows) =>
              resp.status = 404

\* C5 amended: the id is looked at first.  An id <= 0 answers 400 and a
\* positive id that matches no record answers 404, whatever the body; an empty
\* field set answers 400 only when the id matches a record.  No record
\* changes in any of these cases.
C5_PatchErrorOrder ==
    PatchServed =>
        /\ req.id <= 0 => resp.status = 400 /\ db = pre
        /\ (req.id > 0 /\ req.id \notin DOMAIN pre.rows) =>
              resp.status = 404 /\ db = pre
        /\ (req.id \in DOMAIN pre.rows /\ DOMAIN req.body = {}) =>
              resp.status = 400 /\ db = pre

\* An empty PATCH body met a record, and an empty one met none.
C5_Witness ==
    /\ PatchServed
    /\ DOMAIN req.body = {}
    /\ req.id \in DOMAIN pre.rows
    /\ resp.status = 400

InsertSucceeded ==
    \/ req.op = "seed" /\ resp.status = 200
    \/ req.op = "create" /\ resp.status = 201

ReadServed == req.op = "read" /\ pre.exists

\* C8 as stated: GET /locations/{id} answers 404 when id <= 0 or no record
\* has the id, and returns the matching record otherwise.
C8_ReadNotFoundOrRecord ==
    ReadServed =>
        IF req.id <= 0 \/ req.id \notin DOMAIN pre.rows
        THEN resp.status = 404
        ELSE /\ resp.status = 200
             /\ resp.body["id"] = req.id
             /\ \A f \in SchemaFields :
                   resp.body[f] = Stored(pre.rows[req.id], f)

\* Fields of a response the amended C8 speaks of.
EchoedFields == {"name", "loca", "img", "desc", "facilities"}

\* C8 amended: GET /locations/{id} answers 400 when id <= 0 and 404 when id
\* is positive and no record has it; for a matching record it answers 200
\* with that record's id, name, loca, img, desc and facilities, or 500 when
\* one of the record's four required fields is null.  The store is left as
\* it was.
C8_ReadStatuses ==
    ReadServed =>
        /\ db = pre
        /\ IF req.id <= 0 THEN resp.status = 400
           ELSE IF req.id \notin DOMAIN pre.rows THEN resp.status = 404
           ELSE IF \E f \in RequiredFields : pre.rows[req.id][f] = Null
                THEN resp.status = 500
                ELSE /\ resp.status = 200
                     /\ resp.body["id"] = req.id
                     /\ \A f \in EchoedFields :
                           resp.body[f] = pre.rows[req.id][f]

\* A GET named an id that is not positive.
C8_Witness ==
    /\ ReadServed
    /\ req.id <= 0
    /\ resp.status = 400
    /\ DOMAIN pre.rows # {}

\* C9: a seed or reset call with a wrong secret answers 403 and leaves the
\* store as it was: no table created or dropped, no record inserted or
\* deleted.
C9_WrongSecretForbidden ==
    (req.op \in {"seed", "reset"} /\ req.secret # SEED_SECRET) =>
        resp.status = 403 /\ db = pre

\* A seed call with a wrong secret met a table that was not there yet.
C9_Witness ==
    /\ req.op = "seed"
    /\ req.secret # SEED_SECRET
    /\ ~pre.exists
    /\ resp.status = 403

\* Key k is present in fixture object o and not empty.
Present(o, k) == k \in DOMAIN o /\ o[k] # Null /\ o[k] # ""

\* A fixture object with all four required fields: name, loca under either
\* spelling, img, desc.
FixtureValid(o) ==
    /\ Present(o, "name")
    /\ Present(o, "loca") \/ Present(o, "locations")
    /\ Present(o, "img")
    /\ Present(o, "desc")

\* The record a valid fixture object stands for.
FixtureRow(o) ==
    [name |-> o.name,
     loca |-> IF "loca" \in DOMAIN o THEN o.loca ELSE o.locations,
     img |-> o.img,
     desc |-> o.desc,
     facilities |-> IF "facilities" \in DOMAIN o THEN o.facilities ELSE Null,
     layout |-> IF "layout_info" \in DOMAIN o THEN o.layout_info
                ELSE IF "Layout" \in DOMAIN o THEN o.Layout ELSE Null]

\* The last request was a seed call with the right secret that found db.json
\* and no rows.
SeedOnEmpty ==
    /\ req.op = "seed"
    /\ req.secret = SEED_SECRET
    /\ req.file.found
    /\ DOMAIN pre.rows = {}

\* C10: a seed call on an empty table with a fixture of N objects, K of them
\* valid: with K >= 1 it persists exactly the K valid ones, in fixture order,
\* and answers inserted_count = K, total_data = N; with K = 0 it fails and the
\* table stays empty.
C10_SeedInsertsValidOnes ==
    SeedOnEmpty =>
        LET valid == SelectSeq(req.file.locations, FixtureValid)
            K == Len(valid)
            N == Len(req.file.locations)
            base == Max(DOMAIN db.rows) - K
        IN IF K >= 1
           THEN /\ resp.status = 200
                /\ resp.body = [inserted_count |-> K, total_data |-> N]
                /\ DOMAIN db.rows = (base + 1)..(base + K)
                /\ \A i \in 1..K : db.rows[base + i] = FixtureRow(valid[i])
           ELSE /\ resp.status >= 400
                /\ DOMAIN db.rows = {}

\* A seed call skipped one object of two and inserted the other.
C10_Witness ==
    /\ SeedOnEmpty
    /\ resp.status = 200
    /\ resp.body = [inserted_count |-> 1, total_data |-> 2]


\* `term` is a substring of `text`, letter case set aside; a null text holds
\* no substring.
Contains(text, term) ==
    /\ text # Null
    /\ LET t == Lower(Spelling(text))
           p == Lower(Spelling(term))
       IN \E k \in 0..(Len(t) - Len(p)) : SubSeq(t, k + 1, k + Len(p)) = p

\* The record matches every filter the query supplies.
MatchesFilters(row, q) ==
    /\ q.loca # Null => Contains(row.loca, q.loca)
    /\ q.search # Null =>
          Contains(row.name, q.search) \/ Contains(row.desc, q.search)

\* The last request was a GET /locations with a limit in range that returned
\* a list.
ListServed ==
    /\ req.op = "list"
    /\ req.query.limit \in 1..100
    /\ resp.status = 200

\* C11: GET /locations with limit L in [1,100] returns at most L records, each
\* a stored record that matches all supplied filters (loca a case-insensitive
\* substring of its loca, and search a case-insensitive substring of its name
\* or its desc); with sort_by id or name the result is the first L matching
\* records in that column's order, descending only when order is "desc" in
\* any letter case; with any other sort_by it is L of the matching records (or
\* all of them, if fewer) in whatever order.
C11_ListFiltersSortsLimits ==
    ListServed =>
        LET q == req.query
            n == Len(resp.body)
            r == [i \in 1..n |-> resp.body[i]["id"]]
            matching == {i \in DOMAIN pre.rows : MatchesFilters(pre.rows[i], q)}
        IN /\ n <= q.limit
           /\ \A a \in 1..n : r[a] \in matching
           /\ \A a, b \in 1..n : a < b => r[a] # r[b]
           /\ n = q.limit \/ n = Cardinality(matching)
           /\ \A a, b \in 1..n : a < b => ~Before(dialect, pre, q, r[b], r[a])
           /\ \A m \in matching : (\A a \in 1..n : r[a] # m) =>
                 \A a \in 1..n : ~Before(dialect, pre, q, m, r[a])


\* Both seed calls found the table empty and both committed.
BothPassedBothCommitted ==
    /\ calls # NoCalls
    /\ \A c \in SeedCalls :
          /\ calls[c].pc = "done"
          /\ calls[c].status = 200
          /\ calls[c].existing_count = 0

\* C12: when two concurrent seed calls with the correct secret both pass the
\* emptiness check of an empty table before either commits, both commit, and
\* the table then holds every valid fixture record twice: 2K records for K
\* valid fixture objects, each call answering inserted_count = K.
C12_ConcurrentSeedsDouble ==
    BothPassedBothCommitted =>
        LET valid == SelectSeq(calls[1].file.locations, FixtureValid)
            K == Len(valid)
        IN /\ K >= 1
           /\ DOMAIN db.rows = 1..(2 * K)
           /\ \A i \in 1..K :
                 /\ db.rows[i] = FixtureRow(valid[i])
                 /\ db.rows[K + i] = FixtureRow(valid[i])
           /\ \A c \in SeedCalls : calls[c].body["inserted_count"] = K

\* Both calls passed the check on the empty table, both committed, and the
\* two-object fixture is in the table twice.
C12_Witness ==
    /\ BothPassedBothCommitted
    /\ Len(calls[1].file.locations) = 2
    /\ Cardinality(DOMAIN db.rows) = 4


\* C13: the layout value round-trips between write and read: a GET
\* /locations/{id} or GET /locations response carries, in the layout_info
\* field of each record it returns, the layout value that record holds (the
\* one seeding stored from the fixture's Layout or layout_info key, or a
\* create or PATCH body supplied as layout_info).
C13_LayoutRoundTrips ==
    /\ (req.op = "read" /\ resp.status = 200) =>
          resp.body["layout_info"] = pre.rows[req.id].layout
    /\ (req.op = "list" /\ resp.status = 200) =>
          \A i \in 1..Len(resp.body) :
              resp.body[i]["layout_info"] = pre.rows[resp.body[i]["id"]].layout

====
